---- MODULE Spec2Model ----
(***************************************************************************)
(* TEI-XML to CoNLL-U converter (convert.py): the per-file conversion loop *)
(* of the __main__ block, with the XML tree, the token mapping, the text   *)
(* reconstruction, the serialization and the output path derivation.       *)
(*                                                                         *)
(* Representation.                                                         *)
(*  - A parsed document is a record [par, elem]: the nodes are 1..Len(par) *)
(*    numbered in document (pre-)order, par[n] is the parent of n (0 for   *)
(*    the root, Python's None), elem[n] is the element's data.             *)
(*  - A Python str that the program takes apart (text, tail, form, path)   *)
(*    is a sequence of one-character strings; lxml's None for a missing    *)
(*    text or tail is the empty sequence (lxml never returns "").          *)
(*  - An optional field (lemma, upos, misc, ...) is None == <<>> or        *)
(*    Some(v) == <<v>>, so that None differs from the empty string.        *)
(*  - A written text is the sequence of its lines, i.e. text.split("\n").  *)
(*  - fs maps each path written so far to its text; opened lists the paths *)
(*    opened for writing, in order.                                        *)
(***************************************************************************)
EXTENDS Integers, Sequences, FiniteSets, TLC

VARIABLES args, xi, pc, parsed, parents, sentences, fs, opened

vars == <<args, xi, pc, parsed, parents, sentences, fs, opened>>

\* ------------------------------------------------------------------ bounds
MaxNodes == 5
MaxToks == 2
MaxFiles == 2

\* ------------------------------------------------------------- vocabulary
TEI_W == "{http://www.tei-c.org/ns/1.0}w"
TEI_PC == "{http://www.tei-c.org/ns/1.0}pc"
TEI_SEG == "{http://www.tei-c.org/ns/1.0}seg"

None == <<>>
Some(v) == <<v>>

\* ---------------------------------------------------------- string helpers
RECURSIVE Str(_)
\* the Python str whose characters are cs
Str(cs) == IF cs = <<>> THEN "" ELSE Head(cs) \o Str(Tail(cs))

RECURSIVE Join(_, _)
\* sep.join(items) for a list of str
Join(items, sep) ==
  IF items = <<>> THEN ""
  ELSE IF Len(items) = 1 THEN items[1]
  ELSE items[1] \o sep \o Join(Tail(items), sep)

RECURSIVE Flatten(_)
\* the concatenation of a sequence of sequences
Flatten(ss) == IF ss = <<>> THEN <<>> ELSE Head(ss) \o Flatten(Tail(ss))

IsSpace(c) == c \in {" ", "\t", "\n", "\r"}

RECURSIVE LStrip(_)
LStrip(cs) == IF cs # <<>> /\ IsSpace(Head(cs)) THEN LStrip(Tail(cs)) ELSE cs

RECURSIVE RStrip(_)
RStrip(cs) ==
  IF cs # <<>> /\ IsSpace(cs[Len(cs)]) THEN RStrip(SubSeq(cs, 1, Len(cs) - 1)) ELSE cs

\* str.strip(): whitespace removed from both ends
Strip(cs) == LStrip(RStrip(cs))

StartsWith(cs, old) == Len(cs) >= Len(old) /\ SubSeq(cs, 1, Len(old)) = old

RECURSIVE Replace(_, _, _)
\* str.replace(old, new): every non-overlapping occurrence, left to right
Replace(cs, old, new) ==
  IF cs = <<>> THEN <<>>
  ELSE IF StartsWith(cs, old)
       THEN new \o Replace(SubSeq(cs, Len(old) + 1, Len(cs)), old, new)
       ELSE <<Head(cs)>> \o Replace(Tail(cs), old, new)

\* ------------------------------------------------------------ the XML tree
Nodes(doc) == 1..Len(doc.par)

\* lxml getparent(): 0 stands for None
GetParent(doc, e) == doc.par[e]

\* the children of p, in document order
Children(doc, p) ==
  SelectSeq([i \in 1..Len(doc.par) |-> i], LAMBDA c: doc.par[c] = p)

RECURSIVE Iter(_, _)
\* p.iter(): p and all its descendants, pre-order
Iter(doc, p) ==
  LET kids == Children(doc, p)
  IN  <<p>> \o Flatten([k \in 1..Len(kids) |-> Iter(doc, kids[k])])

\* root.iterdescendants(tag): the descendants (not the root) with that tag
IterDescendants(doc, root, tag) ==
  SelectSeq(Tail(Iter(doc, root)), LAMBDA e: doc.elem[e].tag = tag)

\* findall(".//{tei}w/.."): lxml's ElementPath maps each matched w to its
\* parent, one result per w (no de-duplication in the path engine)
FindallParents(doc) ==
  LET ws == IterDescendants(doc, 1, TEI_W)
  IN  SelectSeq([k \in 1..Len(ws) |-> GetParent(doc, ws[k])], LAMBDA p: p # 0)

\* variant: the list of parents used without de-duplication
FromKeysNoDedup(seq) == seq

RECURSIVE FromKeys(_)
\* dict.fromkeys(seq).keys(): first occurrences, in insertion order
FromKeys(seq) ==
  IF seq = <<>> THEN <<>>
  ELSE LET front == FromKeys(SubSeq(seq, 1, Len(seq) - 1))
           last == seq[Len(seq)]
       IN  IF \E k \in 1..Len(front) : front[k] = last
           THEN front ELSE Append(front, last)

RECURSIVE IterText(_, _)
\* "".join(e.itertext(with_tail=False)): the text of e, then for each child
\* its itertext and its tail
IterText(doc, e) ==
  LET kids == Children(doc, e)
  IN  doc.elem[e].text
      \o Flatten([k \in 1..Len(kids) |->
                    IterText(doc, kids[k]) \o doc.elem[kids[k]].tail])

\* ------------------------------------------------------- the token mapper
\* variant: the tags compared without their namespace
IsTokenNoNamespace(doc, e) == doc.elem[e].tag \in {"w", "pc"}

\* line 114: the tag is the TEI w or pc
IsToken(doc, e) == doc.elem[e].tag \in {TEI_W, TEI_PC}

\* variant: the subtype is looked at before the tag
PosNumberFirst(el) ==
  IF "subtype" \in DOMAIN el.attrib /\ el.attrib["subtype"] = "number"
  THEN Some("NUM")
  ELSE IF el.tag = TEI_PC THEN Some("PUNCT") ELSE None

\* lines 120-124: the part-of-speech guess
Pos(el) ==
  IF el.tag = TEI_PC THEN Some("PUNCT")
  ELSE IF "subtype" \in DOMAIN el.attrib /\ el.attrib["subtype"] = "number"
       THEN Some("NUM")
       ELSE None

\* lines 126-136: the list of MISC annotations
MiscList(el) ==
  (IF el.tail # <<" ">> THEN <<"SpaceAfter=No">> ELSE <<>>)
  \o (IF "type" \in DOMAIN el.attrib
      THEN <<"Type=" \o el.attrib["type"]>> ELSE <<>>)
  \o (IF "subtype" \in DOMAIN el.attrib
      THEN <<"Subtype=" \o el.attrib["subtype"]>> ELSE <<>>)
  \o (IF "orig" \in DOMAIN el.attrib
      THEN <<"Orig=" \o el.attrib["orig"]>> ELSE <<>>)
  \o (IF "norm" \in DOMAIN el.attrib
      THEN <<"Norm=" \o el.attrib["norm"]>> ELSE <<>>)

\* variant: an empty list of annotations joined to the empty string
MiscFieldNeverNone(el) == Some(Join(MiscList(el), "|"))

\* line 149
MiscField(el) ==
  LET misc == MiscList(el)
  IN  IF Len(misc) > 0 THEN Some(Join(misc, "|")) ELSE None

\* e.attrib.get(k): None when the attribute is missing
AttribGet(el, k) == IF k \in DOMAIN el.attrib THEN Some(el.attrib[k]) ELSE None

\* lines 137-152: the Token built for element e with running id i
MakeToken(doc, e, i) ==
  [id |-> i,
   form |-> IterText(doc, e),
   lemma |-> AttribGet(doc.elem[e], "lemma"),
   upos |-> Pos(doc.elem[e]),
   xpos |-> None,
   feats |-> None,
   head |-> None,
   deprel |-> None,
   deps |-> None,
   misc |-> MiscField(doc.elem[e])]

RECURSIVE TokenLoopSkipCounts(_, _, _, _)
\* variant: a skipped element consumes an id
TokenLoopSkipCounts(doc, es, i, tokens) ==
  IF es = <<>> THEN tokens
  ELSE IF ~IsToken(doc, Head(es))
       THEN TokenLoopSkipCounts(doc, Tail(es), i + 1, tokens)
       ELSE TokenLoopSkipCounts(doc, Tail(es), i + 1,
                                Append(tokens, MakeToken(doc, Head(es), i)))

RECURSIVE TokenLoop(_, _, _, _)
\* lines 111-154: for e in p.iter(), with the counter i and the list tokens
TokenLoop(doc, es, i, tokens) ==
  IF es = <<>> THEN tokens
  ELSE IF ~IsToken(doc, Head(es))
       THEN TokenLoop(doc, Tail(es), i, tokens)
       ELSE TokenLoop(doc, Tail(es), i + 1,
                      Append(tokens, MakeToken(doc, Head(es), i)))

\* variant: only a lone SpaceAfter=No is cleared from the last token
ClearLastMiscSpaceOnly(tokens) ==
  IF tokens[Len(tokens)].misc = Some("SpaceAfter=No")
  THEN [tokens EXCEPT ![Len(tokens)] = [@ EXCEPT !.misc = None]]
  ELSE tokens

\* line 155: tokens[-1]["misc"] = None (the list is not empty)
ClearLastMisc(tokens) ==
  [tokens EXCEPT ![Len(tokens)] = [@ EXCEPT !.misc = None]]

\* lines 156-159: the reconstructed sentence text
SentenceText(tokens) ==
  Strip(Flatten([k \in 1..Len(tokens) |->
                   tokens[k].form
                   \o (IF ~(tokens[k].misc = Some("SpaceAfter=No"))
                       THEN <<" ">> ELSE <<>>)]))

\* lines 110-160: the TokenList of sentence root p, the n-th of the document
MapSentenceOf(doc, p, n) ==
  LET tokens == ClearLastMisc(TokenLoop(doc, Iter(doc, p), 0, <<>>))
  IN  [metadata |-> [sent_id |-> n, text |-> SentenceText(tokens)],
       tokens |-> tokens]

\* ---------------------------------------------------------- serialization
SerializeOpt(field) == IF field = None THEN "_" ELSE field[1]

\* one token row: the ten fields joined by tabs, None rendered as "_"
TokenLine(t) ==
  Join(<<ToString(t.id), Str(t.form), SerializeOpt(t.lemma),
         SerializeOpt(t.upos), SerializeOpt(t.xpos), SerializeOpt(t.feats),
         SerializeOpt(t.head), SerializeOpt(t.deprel), SerializeOpt(t.deps),
         SerializeOpt(t.misc)>>, "\t")

\* TokenList.serialize() of the conllu library, as the lines of its result:
\* the metadata comments, the token rows, and "\n\n" at the end
Serialize(s) ==
  <<"# sent_id = " \o ToString(s.metadata.sent_id)>>
  \o <<IF s.metadata.text # <<>>
       THEN "# text = " \o Str(s.metadata.text) ELSE "# text">>
  \o [k \in 1..Len(s.tokens) |-> TokenLine(s.tokens[k])]
  \o <<"", "">>

\* line 165: "\n".join(blocks), as the lines of the joined text
JoinBlocks(blocks) == IF blocks = <<>> THEN <<"">> ELSE Flatten(blocks)

OutputText(sents) == JoinBlocks([k \in 1..Len(sents) |-> Serialize(sents[k])])

DotXml == <<".", "x", "m", "l">>
DotConllu == <<".", "c", "o", "n", "l", "l", "u">>

\* line 164: xml.name.replace(".xml", ".conllu")
OutPath(name) == Replace(name, DotXml, DotConllu)

\* ------------------------------------------------------------ the program
\* The handle args.XML[xi] was opened for reading when the arguments were
\* parsed; it reads what the file holds when lxml parses it, so a file that
\* an earlier iteration overwrote with CoNLL-U text no longer parses.
ParseOk(x) == x.wellformed /\ x.name \notin DOMAIN fs

\* lines 101-107, lxml.etree.parse succeeds
Parse ==
  /\ pc = "parse"
  /\ ParseOk(args[xi])
  /\ sentences' = <<>>
  /\ parents' = FromKeys(FindallParents(args[xi].doc))
  /\ parsed' = xi
  /\ pc' = IF parents' = <<>> THEN "save" ELSE "map"
  /\ UNCHANGED <<args, xi, fs, opened>>

\* variant: the failure is swallowed and the (empty) result is saved
ParseErrorSaves ==
  /\ pc = "parse"
  /\ ~ParseOk(args[xi])
  /\ sentences' = <<>>
  /\ pc' = "save"
  /\ UNCHANGED <<args, xi, parsed, parents, fs, opened>>

\* lines 101-103, lxml.etree.parse raises: nothing catches the exception
ParseError ==
  /\ pc = "parse"
  /\ ~ParseOk(args[xi])
  /\ sentences' = <<>>
  /\ pc' = "parse_error"
  /\ UNCHANGED <<args, xi, parsed, parents, fs, opened>>

\* lines 108-161: one iteration of "for p in parents.keys()"; an empty token
\* list makes tokens[-1] raise IndexError, which nothing catches
MapSentence ==
  /\ pc = "map"
  /\ Len(sentences) < Len(parents)
  /\ LET doc == args[xi].doc
         p == parents[Len(sentences) + 1]
     IN  IF TokenLoop(doc, Iter(doc, p), 0, <<>>) = <<>>
         THEN pc' = "index_error" /\ UNCHANGED sentences
         ELSE /\ sentences' =
                   Append(sentences, MapSentenceOf(doc, p, Len(sentences) + 1))
              /\ pc' = IF Len(sentences') = Len(parents) THEN "save" ELSE "map"
  /\ UNCHANGED <<args, xi, parsed, parents, fs, opened>>

\* lines 162-165: open the output path for writing and write the text
Save ==
  /\ pc = "save"
  /\ LET out == OutPath(args[xi].name)
     IN  /\ opened' = Append(opened, out)
         /\ fs' = [q \in DOMAIN fs \cup {out} |->
                     IF q = out THEN OutputText(sentences) ELSE fs[q]]
  /\ xi' = xi + 1
  /\ pc' = IF xi' > Len(args) THEN "done" ELSE "parse"
  /\ UNCHANGED <<args, parsed, parents, sentences>>

Next == Parse \/ ParseError \/ MapSentence \/ Save

\* ------------------------------------------------------------- the inputs
Element(tag, text, tail, attrib) ==
  [tag |-> tag, text |-> text, tail |-> tail, attrib |-> attrib]

NoAttrib == [k \in {} |-> ""]

\* an element without attributes: a word "a " , a punctuation "." or a wrapper
PlainElem(tag) ==
  IF tag = TEI_W THEN Element(tag, <<"a">>, <<" ">>, NoAttrib)
  ELSE IF tag = TEI_PC THEN Element(tag, <<".">>, <<>>, NoAttrib)
  ELSE Element(tag, <<>>, <<>>, NoAttrib)

RECURSIVE AncestorsOrSelf(_, _)
AncestorsOrSelf(par, k) ==
  IF k = 0 THEN {} ELSE {k} \cup AncestorsOrSelf(par, par[k])

\* the parent vectors of the trees with n nodes numbered in document order
Shapes(n) ==
  {par \in [1..n -> 0..(n - 1)] :
     /\ par[1] = 0
     /\ \A k \in 2..n : par[k] \in AncestorsOrSelf(par, k - 1)}

\* a document of n plain elements (w, pc or seg) with parent vector par
TreeDoc(par, tags) ==
  [par |-> par, elem |-> [k \in 1..Len(par) |-> PlainElem(tags[k])]]

AttrValues ==
  [type |-> {"foreign"}, subtype |-> {"number", "abbr"},
   orig |-> {"Dr."}, norm |-> {"doctor"}]

\* every attribute dictionary over type, subtype, orig and norm
Attribs ==
  UNION {{f \in [S -> UNION {AttrValues[k] : k \in DOMAIN AttrValues}] :
            \A k \in S : f[k] \in AttrValues[k]} :
         S \in SUBSET (DOMAIN AttrValues)}

\* the token elements: a w with every combination of tail and attributes, a
\* pc with every combination of tail and subtype
TokElems ==
  {Element(TEI_W, <<"a">>, tail, attrib) :
     tail \in {<<" ">>, <<>>}, attrib \in Attribs}
  \cup {Element(TEI_PC, <<".">>, tail, attrib) :
          tail \in {<<" ">>, <<>>},
          attrib \in {f \in Attribs : DOMAIN f \subseteq {"subtype"}}}

\* a document whose root holds the elements es as its children
FlatDoc(es) ==
  [par |-> <<0>> \o [k \in 1..Len(es) |-> 1],
   elem |-> <<PlainElem(TEI_SEG)>> \o es]

NoDoc == [par |-> <<>>, elem |-> <<>>]

XmlFile(name, wellformed, doc) ==
  [name |-> name, wellformed |-> wellformed, doc |-> doc]

NameA == <<"a">> \o DotXml

\* the argument list of one input file a.xml: malformed, or holding doc
OneFile(wellformed, doc) ==
  <<XmlFile(NameA, wellformed, IF wellformed THEN doc ELSE NoDoc)>>

Start ==
  /\ xi = 1
  /\ pc = "parse"
  /\ parsed = 0
  /\ parents = <<>>
  /\ sentences = <<>>
  /\ fs = [q \in {} |-> <<>>]
  /\ opened = <<>>

\* one file: malformed, or any tree of at most MaxNodes plain elements
InitTree ==
  /\ \/ args = OneFile(FALSE, NoDoc)
     \/ \E n \in 1..MaxNodes :
          \E par \in Shapes(n), tags \in [1..n -> {TEI_W, TEI_PC, TEI_SEG}] :
            args = OneFile(TRUE, TreeDoc(par, tags))
  /\ Start

\* one file: malformed, or one sentence of at most MaxToks token elements
InitTok ==
  /\ \/ args = OneFile(FALSE, NoDoc)
     \/ \E k \in 1..MaxToks :
          \E es \in [1..k -> TokElems] : args = OneFile(TRUE, FlatDoc(es))
  /\ Start

\* a document without any w: no sentence
DocNone == FlatDoc(<<>>)

\* <seg><w>a</w> <w type="foreign">b</w><pc>.</pc></seg>
DocOne ==
  FlatDoc(<<Element(TEI_W, <<"a">>, <<" ">>, NoAttrib),
            Element(TEI_W, <<"b">>, <<>>, "type" :> "foreign"),
            Element(TEI_PC, <<".">>, <<>>, NoAttrib)>>)

\* <seg><seg><w lemma="a"> a</w><pc>.</pc></seg>
\*      <seg><w subtype="number">1</w> <w>a</w> </seg></seg>
DocTwo ==
  [par |-> <<0, 1, 2, 2, 1, 5, 5>>,
   elem |-> <<PlainElem(TEI_SEG),
              PlainElem(TEI_SEG),
              Element(TEI_W, <<" ", "a">>, <<>>, "lemma" :> "a"),
              Element(TEI_PC, <<".">>, <<>>, NoAttrib),
              PlainElem(TEI_SEG),
              Element(TEI_W, <<"1">>, <<" ">>, "subtype" :> "number"),
              Element(TEI_W, <<"a">>, <<" ">>, NoAttrib)>>]

SampleDocs == {DocNone, DocOne, DocTwo}

\* a.xml, a.tei, a.xml/b.xml and a.conllu
Names ==
  {NameA,
   <<"a", ".", "t", "e", "i">>,
   NameA \o <<"/", "b">> \o DotXml,
   <<"a">> \o DotConllu}

XmlFiles ==
  {XmlFile(name, FALSE, NoDoc) : name \in Names}
  \cup {XmlFile(name, TRUE, doc) : name \in Names, doc \in SampleDocs}

\* a batch of at most MaxFiles files; a path named twice is the same file
InitBatch ==
  /\ \E n \in 1..MaxFiles :
       \E xs \in [1..n -> XmlFiles] :
         /\ \A i, j \in 1..n : xs[i].name = xs[j].name => xs[i] = xs[j]
         /\ args = xs
  /\ Start

Init == InitTree \/ InitTok \/ InitBatch

Spec == Init /\ [][Next]_vars

SpecBatch == InitBatch /\ [][Next]_vars

SpecTree == InitTree /\ [][Next]_vars

SpecTok == InitTok /\ [][Next]_vars

\* ============================================================== the claims
\* The document being converted while pc is "map" or "save".
Doc == args[xi].doc

Converting == pc \in {"map", "save"}

\* the elements of the subtree rooted at p (p included)
Subtree(doc, p) == {n \in Nodes(doc) : p \in AncestorsOrSelf(doc.par, n)}

\* the w and pc elements of the subtree rooted at p
TokenNodes(doc, p) ==
  {n \in Subtree(doc, p) : doc.elem[n].tag \in {TEI_W, TEI_PC}}

\* the i-th element of a set of nodes in document order
Nth(S, i) == CHOOSE n \in S : Cardinality({m \in S : m < n}) = i - 1

\* the w children of p
WordChildren(doc, p) ==
  {n \in Nodes(doc) : doc.par[n] = p /\ doc.elem[n].tag = TEI_W}

\* the elements that are the parent of at least one w
SentenceParents(doc) == {p \in Nodes(doc) : WordChildren(doc, p) # {}}

FirstWord(doc, p) == Nth(WordChildren(doc, p), 1)

\* each sentence parent is in parents exactly once, and sentence k, numbered
\* k, is the one built from parents[k]
ParentsOnceAndNumbered ==
  /\ {parents[k] : k \in 1..Len(parents)} = SentenceParents(Doc)
  /\ \A i, j \in 1..Len(parents) : parents[i] = parents[j] => i = j
  /\ \A k \in 1..Len(sentences) :
       /\ sentences[k].metadata.sent_id = k
       /\ Len(sentences[k].tokens) = Cardinality(TokenNodes(Doc, parents[k]))

\* C1 as stated: the sentence parents are yielded exactly once each and the
\* sentences 1..N follow the document order of the parent elements, also
\* when one sentence parent is nested inside another.
C1_ParentsInDocumentOrder ==
  Converting =>
    /\ ParentsOnceAndNumbered
    /\ \A i, j \in 1..Len(parents) : i < j => parents[i] < parents[j]

\* C1 amended: the sentence parents are yielded exactly once each and the
\* sentences 1..N follow the document order of each parent's first w child
\* (the order of first appearance in the list of matched w elements).
C1_ParentsInFirstWordOrder ==
  Converting =>
    /\ ParentsOnceAndNumbered
    /\ \A i, j \in 1..Len(parents) :
         i < j => FirstWord(Doc, parents[i]) < FirstWord(Doc, parents[j])

\* a converted document in which a parent of two w children has a nested
\* sentence parent whose w comes first
C1_Witness ==
  /\ pc = "save"
  /\ Len(sentences) = Len(parents)
  /\ \E i, j \in 1..Len(parents) :
       /\ i < j
       /\ parents[i] \in Subtree(Doc, parents[j])
       /\ Cardinality(WordChildren(Doc, parents[j])) >= 2

\* C2: the tokens of every sentence are exactly the w and pc elements of the
\* sentence root's subtree, in document order, with ids 0..k-1; elements
\* with another tag give no token and consume no id, their descendants do.
C2_TokensAreSubtreeWordsAndPunctuation ==
  Converting =>
    \A k \in 1..Len(sentences) :
      LET S == TokenNodes(Doc, parents[k])
          tokens == sentences[k].tokens
      IN  /\ Len(tokens) = Cardinality(S)
          /\ \A i \in 1..Len(tokens) :
               /\ tokens[i].id = i - 1
               /\ tokens[i].form = IterText(Doc, Nth(S, i))
               /\ (tokens[i].upos = Some("PUNCT")) =
                    (Doc.elem[Nth(S, i)].tag = TEI_PC)

\* a sentence of two or more tokens, one of them below an element that is
\* neither w nor pc and precedes it inside the sentence
C2_Witness ==
  /\ pc = "save"
  /\ \E k \in 1..Len(sentences) :
       /\ Len(sentences[k].tokens) >= 2
       /\ \E n \in Subtree(Doc, parents[k]) \ {parents[k]} :
            /\ Doc.elem[n].tag = TEI_SEG
            /\ TokenNodes(Doc, n) # {}
            /\ \E m \in TokenNodes(Doc, parents[k]) : m > n /\ m \notin Subtree(Doc, n)

\* C10: every sentence root has a w child, so its token list is not empty:
\* the access to the last token never fails and no sentence without token
\* rows is emitted.
C10_LastTokenAccessNeverFails ==
  /\ pc # "index_error"
  /\ \A k \in 1..Len(sentences) : Len(sentences[k].tokens) >= 1
  /\ Converting =>
       \A k \in 1..Len(parents) : WordChildren(Doc, parents[k]) # {}

\* a sentence whose root has other children and a single token, a direct w
C10_Witness ==
  /\ pc = "save"
  /\ \E k \in 1..Len(sentences) :
       /\ Len(sentences[k].tokens) = 1
       /\ Cardinality(Subtree(Doc, parents[k])) >= 3

\* the source element of token i of sentence k
TokenElem(k, i) == Doc.elem[Nth(TokenNodes(Doc, parents[k]), i)]

\* the Type, Subtype, Orig and Norm annotations of an element, in that order
AttrAnnotations(el) ==
  LET keys == <<"type", "subtype", "orig", "norm">>
      labels == <<"Type=", "Subtype=", "Orig=", "Norm=">>
      present == SelectSeq(<<1, 2, 3, 4>>, LAMBDA n : keys[n] \in DOMAIN el.attrib)
  IN  [n \in 1..Len(present) |->
         labels[present[n]] \o el.attrib[keys[present[n]]]]

\* seq with x inserted after its first n items
InsertAt(seq, n, x) == SubSeq(seq, 1, n) \o <<x>> \o SubSeq(seq, n + 1, Len(seq))

\* C3: after mapping, the misc of the final token of every sentence is None,
\* whatever its tail and attributes; the misc of every other token is as
\* computed from its element.
C3_LastTokenMiscAbsent ==
  Converting =>
    \A k \in 1..Len(sentences) :
      LET tokens == sentences[k].tokens
      IN  /\ tokens[Len(tokens)].misc = None
          /\ \A i \in 1..(Len(tokens) - 1) :
               tokens[i].misc = MiscField(TokenElem(k, i))

\* a sentence whose last element has no single-space tail and a type, and
\* whose first token kept its annotations
C3_Witness ==
  /\ pc = "save"
  /\ \E k \in 1..Len(sentences) :
       LET tokens == sentences[k].tokens
           last == TokenElem(k, Len(tokens))
       IN  /\ Len(tokens) >= 2
           /\ last.tail # <<" ">>
           /\ "type" \in DOMAIN last.attrib
           /\ tokens[1].misc # None

\* C4 as stated: the text is the concatenation of form plus one space per
\* token, without the space after a non-final token whose element's tail
\* is not exactly one space, with only trailing whitespace removed.
C4_TextFollowsSpaceAfter ==
  Converting =>
    \A k \in 1..Len(sentences) :
      LET tokens == sentences[k].tokens
      IN  sentences[k].metadata.text =
            RStrip(Flatten([i \in 1..Len(tokens) |->
                      tokens[i].form
                      \o (IF i < Len(tokens) /\ TokenElem(k, i).tail # <<" ">>
                          THEN <<>> ELSE <<" ">>)]))

\* C5: the misc of a non-final token is the "|"-join of SpaceAfter=No (iff
\* the tail is not a single space) and of Type, Subtype, Orig, Norm (each
\* iff its attribute exists, in that relative order), and None when none
\* applies; type="foreign" alone with a single-space tail gives Type=foreign.
C5_MiscAnnotations ==
  Converting =>
    \A k \in 1..Len(sentences) :
      \A i \in 1..(Len(sentences[k].tokens) - 1) :
        LET el == TokenElem(k, i)
            misc == sentences[k].tokens[i].misc
            anns == AttrAnnotations(el)
        IN  /\ (el.tail = <<" ">> /\ anns = <<>>) => misc = None
            /\ (el.tail = <<" ">> /\ anns # <<>>) => misc = Some(Join(anns, "|"))
            /\ el.tail # <<" ">> =>
                 \E n \in 0..Len(anns) :
                   misc = Some(Join(InsertAt(anns, n, "SpaceAfter=No"), "|"))
            /\ misc # Some("")
            /\ (el.tail = <<" ">> /\ DOMAIN el.attrib = {"type"}
                /\ el.attrib["type"] = "foreign") => misc = Some("Type=foreign")

\* a non-final token with all four attributes and no single-space tail
C5_Witness ==
  /\ pc = "save"
  /\ \E k \in 1..Len(sentences) :
       /\ Len(sentences[k].tokens) >= 2
       /\ TokenElem(k, 1).tail # <<" ">>
       /\ DOMAIN TokenElem(k, 1).attrib = {"type", "subtype", "orig", "norm"}
       /\ sentences[k].tokens[1].misc # None

\* C6: upos is PUNCT for a pc element (also with subtype="number"), NUM for
\* a w element with subtype "number", None otherwise; xpos, feats, head,
\* deprel and deps are None.
C6_PosInference ==
  Converting =>
    \A k \in 1..Len(sentences) :
      \A i \in 1..Len(sentences[k].tokens) :
        LET el == TokenElem(k, i)
            t == sentences[k].tokens[i]
            number == "subtype" \in DOMAIN el.attrib /\ el.attrib["subtype"] = "number"
        IN  /\ el.tag = TEI_PC => t.upos = Some("PUNCT")
            /\ (el.tag = TEI_W /\ number) => t.upos = Some("NUM")
            /\ (el.tag = TEI_W /\ ~number) => t.upos = None
            /\ t.xpos = None /\ t.feats = None /\ t.head = None
            /\ t.deprel = None /\ t.deps = None

\* a sentence with a pc of subtype "number" and a w of subtype "abbr"
C6_Witness ==
  /\ pc = "save"
  /\ \E k \in 1..Len(sentences) :
       \E i, j \in 1..Len(sentences[k].tokens) :
         /\ TokenElem(k, i).tag = TEI_PC
         /\ "subtype" \in DOMAIN TokenElem(k, i).attrib
         /\ TokenElem(k, i).attrib["subtype"] = "number"
         /\ sentences[k].tokens[i].upos = Some("PUNCT")
         /\ TokenElem(k, j).tag = TEI_W
         /\ "subtype" \in DOMAIN TokenElem(k, j).attrib
         /\ sentences[k].tokens[j].upos = None

SentIdLine(n) == "# sent_id = " \o ToString(n)

\* C7 as stated: in a written text, consecutive sentence blocks are
\* separated by exactly one blank line and appear in sent_id order.
C7_OneBlankLineBetweenBlocks ==
  \A q \in DOMAIN fs :
    LET lines == fs[q]
    IN  \A i, j \in 1..Len(lines) :
          \A n, m \in 1..Len(lines) :
            /\ (lines[i] = SentIdLine(n) /\ n >= 2) =>
                 (i >= 3 /\ lines[i - 1] = "" /\ lines[i - 2] # "")
            /\ (lines[i] = SentIdLine(n) /\ lines[j] = SentIdLine(m) /\ i < j)
                 => n < m

\* the index of the "." that starts the extension of a path (0 if none):
\* the last "." of the base name, not its first character
ExtStart(name) ==
  LET slashes == {k \in 1..Len(name) : name[k] = "/"}
      base == IF slashes = {} THEN 1
              ELSE 1 + CHOOSE k \in slashes : \A l \in slashes : l <= k
      dots == {k \in (base + 1)..Len(name) : name[k] = "."}
  IN  IF dots = {} THEN 0 ELSE CHOOSE k \in dots : \A l \in dots : l <= k

\* the path with its extension changed to .conllu
ChangeExt(name) ==
  (IF ExtStart(name) = 0 THEN name ELSE SubSeq(name, 1, ExtStart(name) - 1))
  \o DotConllu

\* C8 as stated: the path opened for writing is the input path with only
\* its extension changed to .conllu, and is never the input path itself.
C8_OutputPathChangesExtensionOnly ==
  \A k \in 1..Len(opened) :
    /\ opened[k] = ChangeExt(args[k].name)
    /\ opened[k] # args[k].name

\* C9: an output path is opened for writing only after the parse of that
\* input and the mapping of all its sentences succeeded; a failed parse
\* opens and writes nothing, then or later, so earlier outputs stay as
\* they are.
C9_NoOutputWithoutConversion ==
  [][/\ (opened' # opened \/ fs' # fs) =>
          /\ parsed = xi
          /\ Len(sentences) = Len(parents)
          /\ pc \notin {"parse_error", "index_error"}
          /\ opened' = Append(opened, OutPath(args[xi].name))
          /\ \A q \in DOMAIN fs : q # OutPath(args[xi].name) => fs'[q] = fs[q]
     /\ pc' = "parse_error" => (opened' = opened /\ fs' = fs)
     /\ pc # "parse_error"]_vars

\* the parse of the second file failed after the first was written
C9_Witness ==
  /\ pc = "parse_error"
  /\ xi = 2
  /\ Len(opened) = 1
  /\ OutPath(args[1].name) \in DOMAIN fs
  /\ args[1].name # args[2].name
====
